---- MODULE Spec2Model ----
(***************************************************************************)
(* The two Centreon notification scripts                                   *)
(*   centreon-host-email-notification.py     (SMTP relay, "host")          *)
(*   centreon-service-email-notification.py  (local sendmail, "service")   *)
(* as one state machine: a run parses its command line, renders subject    *)
(* and HTML body by string interpolation, builds the MIME message and      *)
(* hands it to its transport.  Strings are real strings: the templates are *)
(* the f-strings of the source, character for character.                   *)
(***************************************************************************)
EXTENDS Integers, Sequences, FiniteSets, TLC

VARIABLES script, argv, values, pc, color, subject, html_content, message,
          calls, exc, conn, proc, stdin, returncode, delivered, out, exitcode

vars == <<script, argv, values, pc, color, subject, html_content, message,
          calls, exc, conn, proc, stdin, returncode, delivered, out, exitcode>>

(* ------------------------------ bounds --------------------------------- *)

\* required flags left off the command line, at most
MaxMissing == 1
\* flags the parser does not know put on the command line, at most
MaxExtra == 1
\* fields of the alert whose value differs from the sample alert, at most
MaxVaried == 1

(* --------------------------- command line ------------------------------ *)

Scripts == {"host", "service"}

\* parser.add_argument(..., required=True) of the host script
HostRequired ==
    {"notify_type", "host_name", "host_alias", "host_state", "host_address",
     "host_output", "recipient_email", "totalup", "totaldown", "duration",
     "date", "time"}

\* parser.add_argument(..., required=True) of the service script
ServiceRequired ==
    {"host_name", "host_alias", "host_address", "service_output",
     "long_date_time", "service_desc", "service_state", "service_duration",
     "contact_email", "total_services_warning", "total_services_critical",
     "total_services_unknown", "host_group_alias"}

\* the flags of the Notification Command in the host script's header comment
HostDocumented ==
    {"notify_type", "host_name", "host_alias", "host_grpalias", "host_state",
     "host_address", "host_output", "recipient_email", "totalup", "totaldown",
     "duration", "date", "time"}

\* the flags of the Notification Command in the service script's header comment
ServiceDocumented ==
    {"host_name", "host_alias", "host_address", "service_output",
     "long_date_time", "service_desc", "service_state", "contact_email",
     "service_duration", "total_services_warning", "total_services_critical",
     "total_services_unknown", "host_group_alias"}

Required(s) == IF s = "host" THEN HostRequired ELSE ServiceRequired

Documented(s) == IF s = "host" THEN HostDocumented ELSE ServiceDocumented

AllFields == HostRequired \cup ServiceRequired

AllFlags == AllFields \cup HostDocumented \cup ServiceDocumented

\* flags a command line may carry that the script's parser does not define
\* (argparse's own -h, which prints the help and sends nothing, is left out)
Unknown(s) == AllFlags \ Required(s)

SubsetsUpTo(S, k) == {x \in SUBSET S : Cardinality(x) <= k}

CommandLines(s) ==
    {(Required(s) \ m) \cup e : m \in SubsetsUpTo(Required(s), MaxMissing),
                                e \in SubsetsUpTo(Unknown(s), MaxExtra)}

\* a bug: the flags are declared without required=True
ParseOkNotRequired(s, a) == a \subseteq Required(s)

\* parser.parse_args(): every required flag is present and no flag is unknown
\* (no flag of the other script is an abbreviation of a flag of this one)
ParseOk(s, a) == Required(s) \subseteq a /\ a \subseteq Required(s)

(* ----------------------------- the alert ------------------------------- *)

\* fields that carry the same datum of the alert under the two scripts' names
Roles ==
    {{"host_state", "service_state"}, {"host_output", "service_output"},
     {"recipient_email", "contact_email"}, {"duration", "service_duration"}}
    \cup {{n} : n \in AllFields \ {"host_state", "service_state", "host_output",
                                   "service_output", "recipient_email",
                                   "contact_email", "duration", "service_duration"}}

StateRole == {"host_state", "service_state"}

\* the manual test command of the service script's header, with the host
\* script's remaining fields filled alike
BaseRecord ==
    [n \in AllFields |->
        CASE n \in {"host_name", "host_alias"} -> "Notification_test"
          [] n = "host_address" -> "10.20.30.45"
          [] n \in {"host_output", "service_output"} -> "UNKNOWN: SNMP Table Request: Timeout"
          [] n = "long_date_time" -> "Fri May 2 11:37:40 CEST 2025"
          [] n = "service_desc" -> "SERVICE_TEST"
          [] n \in StateRole -> "UNKNOWN"
          [] n \in {"recipient_email", "contact_email"} -> "CHANGE_THIS@mail.com"
          [] n \in {"duration", "service_duration"} -> "0d 0h 0m 19s"
          [] n = "total_services_warning" -> "0"
          [] n = "total_services_critical" -> "0"
          [] n = "total_services_unknown" -> "1"
          [] n = "host_group_alias" -> "TEST"
          [] n = "notify_type" -> "PROBLEM"
          [] n = "totalup" -> "12"
          [] n = "totaldown" -> "3"
          [] n = "date" -> "2025-05-02"
          [] n = "time" -> "11:37:40"]

\* state strings: the recognised ones, and unrecognised spellings
StateStrings ==
    {"OK", "WARNING", "CRITICAL", "DOWN", "UNKNOWN", "UP", "", "ok", "Critical", "OK "}

\* a value with HTML markup in it, and a value holding a byte that was not
\* UTF-8 on the command line (Python keeps it as a lone surrogate, written
\* here as the text \udce9)
AltValues == {"<b>web01</b>", "caf\\udce9"}

RoleValues(r) == IF r = StateRole THEN StateStrings ELSE AltValues

SetRole(rec, r, v) == [n \in AllFields |-> IF n \in r THEN v ELSE rec[n]]

RECURSIVE Vary(_)
Vary(k) ==
    IF k = 0 THEN {BaseRecord}
    ELSE LET prev == Vary(k - 1)
         IN  prev \cup UNION {UNION {{SetRole(r0, r, v) : v \in RoleValues(r)} : r \in Roles}
                              : r0 \in prev}

Records == Vary(MaxVaried)

(* ------------------------------ strings -------------------------------- *)

\* t occurs in s
Contains(s, t) ==
    \E i \in 1..(Len(s) - Len(t) + 1) : SubSeq(s, i, i + Len(t) - 1) = t

\* str.encode('utf-8') succeeds: no lone surrogate in s
Encodable(s) == ~Contains(s, "\\udc")

(* ----------------------------- rendering ------------------------------- *)

\* a bug: the state is compared without regard to case
HostColorIgnoreCase(host_state) ==
    IF host_state \in {"OK", "ok", "Ok"} THEN "green"
    ELSE IF host_state \in {"WARNING", "warning", "Warning"} THEN "orange"
    ELSE IF host_state \in {"CRITICAL", "critical", "Critical"}
            \/ host_state \in {"DOWN", "down", "Down"} THEN "red"
    ELSE "gray"

\* host script: color from the host state
HostColor(host_state) ==
    IF host_state = "OK" THEN "green"
    ELSE IF host_state = "WARNING" THEN "orange"
    ELSE IF host_state = "CRITICAL" \/ host_state = "DOWN" THEN "red"
    ELSE "gray"

\* service script: color from the service state
ServiceColor(service_state) ==
    IF service_state = "OK" THEN "green"
    ELSE IF service_state = "WARNING" THEN "orange"
    ELSE IF service_state \in {"CRITICAL", "DOWN"} THEN "red"
    ELSE "gray"

\* a bug: the subject names the alias, not the host name
HostSubjectAlias(f) ==
    "Host " \o f["host_alias"] \o " status is " \o f["host_state"]

\* host script: subject = f"Host {host_name} status is {host_state}"
HostSubject(f) ==
    "Host " \o f["host_name"] \o " status is " \o f["host_state"]

\* a bug: the host script's subject line copied into the service script
ServiceSubjectCopied(f) ==
    "Host " \o f["host_name"] \o " status is " \o f["service_state"]

\* service script:
\* subject = f"Service {service_desc} in host {host_name} status is {service_state}"
ServiceSubject(f) ==
    "Service " \o f["service_desc"] \o " in host " \o f["host_name"]
        \o " status is " \o f["service_state"]

\* host script: url and url_image, both left empty in the source
HostUrl == ""

HostUrlImage == ""

\* host script: sender_email, left empty in the source
HostSenderEmail == ""

\* service script: url and url_image, both left empty in the source
ServiceUrl == ""

ServiceUrlImage == ""

\* service script: sender_email = f"centreon-{host_group_alias}@contoso.com"
ServiceSenderEmail(f) == "centreon-" \o f["host_group_alias"] \o "@contoso.com"

\* the f-string of the host script's html_content, its placeholders as parameters
HostTemplate(url_image, bgcolor, notify_type, host_state, url, host_name, host_alias, host_address, date, time, host_output, totalup, totaldown, duration) ==
       "\n"
    \o "        <html>\n"
    \o "            <body>\n"
    \o "                <table border=0 width='98%' cellpadding=0 cellspacing=0>\n"
    \o "                    <tr>\n"
    \o "                        <td valign='top'>\n"
    \o "                        <br/>\n"
    \o "                            <img width=\"216\" height=\"85\" src='" \o url_image \o "'> \n"
    \o "                        </td>\n"
    \o "                    </tr>\n"
    \o "                </table>\n"
    \o "\n"
    \o "                <br/>\n"
    \o "\n"
    \o "                <table border=0 cellpadding=0 cellspacing=0 width='98%'>\";               \n"
    \o "                    <tr bgcolor=" \o bgcolor \o ">\n"
    \o "                        <td width='140'><b><font color=#ffffff>Host: </font></b></td>\n"
    \o "                        <td><font color=#ffffff><b> " \o notify_type \o " [" \o host_state \o "]</b></font></td>\n"
    \o "                    </tr> \n"
    \o "                    <tr bgcolor=#eeeeee>\n"
    \o "                        <td><b>Hostname: </b></td>\n"
    \o "                        <td><b><a href='" \o url \o "/centreon/main.php?p=20202&o=hd&host_name=" \o host_name \o "'>" \o host_alias \o "</a></b></td>\n"
    \o "                    </tr>\n"
    \o "                    <tr bgcolor=#fefefe>\n"
    \o "                        <td><b>IP: </b></td>\n"
    \o "                        <td><b>" \o host_address \o "</b></td>\n"
    \o "                    </tr>\n"
    \o "                    <tr bgcolor=#eeeeee>\n"
    \o "                        <td><b>Date/time: </b></td>\n"
    \o "                        <td>" \o date \o " " \o time \o "</td>\n"
    \o "                    </tr>\n"
    \o "                    <tr bgcolor=#fefefe>\n"
    \o "                        <td><b>Aditional Info: </b></td>\n"
    \o "                        <td><b>" \o host_output \o "</b></td>\n"
    \o "                    </tr>\n"
    \o "                    <tr bgcolor=#eeeeee>\n"
    \o "                        <td><b>Total Hosts Up: </b></td>\n"
    \o "                        <td><b>" \o totalup \o "</b></td>\n"
    \o "                    </tr>\n"
    \o "                    <tr bgcolor=#fefefe>\n"
    \o "                        <td><b>Total Hosts Down: </b></td>\n"
    \o "                        <td><b>" \o totaldown \o "</b></td>\n"
    \o "                    </tr>\n"
    \o "                    <tr bgcolor=#fefefe>\n"
    \o "                        <td><i>Last status</i> duration: </td>\n"
    \o "                        <td><font color=#CC0000><b>" \o duration \o "</b></font></td>\n"
    \o "                    </tr> \n"
    \o "                </table>\n"
    \o "            </body>\n"
    \o "        </html> \n"
    \o "    "

\* a bug: the link text of the Hostname row shows the host name, not the alias
HostHtmlAliasDropped(c, f) ==
    HostTemplate(HostUrlImage, c, f["notify_type"], f["host_state"], HostUrl,
                 f["host_name"], f["host_name"], f["host_address"], f["date"],
                 f["time"], f["host_output"], f["totalup"], f["totaldown"],
                 f["duration"])

\* host script: html_content, each placeholder bound to the variable it names
HostHtml(c, f) ==
    HostTemplate(HostUrlImage, c, f["notify_type"], f["host_state"], HostUrl,
                 f["host_name"], f["host_alias"], f["host_address"], f["date"],
                 f["time"], f["host_output"], f["totalup"], f["totaldown"],
                 f["duration"])

\* the f-string of the service script's html_content, its placeholders as parameters
ServiceTemplate(url_image, bgcolor, service_state, url, host_name, host_alias, service_desc, host_address, long_date_time, service_output, contact_email, host_group_alias, total_services_warning, total_services_critical, total_services_unknown, service_duration) ==
       "\n"
    \o "    <html>\n"
    \o "        <body>\n"
    \o "            <img src='" \o url_image \o "'>\n"
    \o "            <br>\n"
    \o "            <br>\n"
    \o "            <table border=0 cellpadding=0 cellspacing=0 width=100%>\n"
    \o "                <tr bgcolor=" \o bgcolor \o ">\n"
    \o "                    <td width='140'><b><font color=#ffffff>Notificacion:</font></b></td>\n"
    \o "                    <td><font color=#ffffff><b>" \o service_state \o "</b></font></td>\n"
    \o "                </tr>\n"
    \o "                <tr bgcolor=#eeeeee>\n"
    \o "                    <td><b>Host:</b></td>\n"
    \o "                    <td><font color=#0000CC><b><a href='" \o url \o "/centreon/main.php?p=20202&o=hd&host_name=" \o host_name \o "'>" \o host_alias \o "</a></b></font></td>\n"
    \o "                </tr>\n"
    \o "                <tr bgcolor=#fefefe>\n"
    \o "                    <td><b>Service:</b></td>\n"
    \o "                    <td><font color=#0000CC><b><a href='" \o url \o "/centreon/main.php?p=20201&o=svcd&host_name=" \o host_name \o "&service_description=" \o service_desc \o "'>" \o service_desc \o "</a></b></font></td>\n"
    \o "                </tr>\n"
    \o "                <tr bgcolor=#eeeeee>\n"
    \o "                    <td><b>IP:</b></td>\n"
    \o "                    <td><font color=#005555><b>" \o host_address \o "</b></font></td>\n"
    \o "                </tr>\n"
    \o "                <tr bgcolor=#fefefe>\n"
    \o "                    <td><b>Date/time:</b></td>\n"
    \o "                    <td><font color=#005555>" \o long_date_time \o "</font></td>\n"
    \o "                </tr>\n"
    \o "                <tr bgcolor=#eeeeee>\n"
    \o "                    <td><b>Aditional Info:</b></td>\n"
    \o "                    <td>" \o service_output \o "</td>\n"
    \o "                </tr>\n"
    \o "                <tr bgcolor=#fefefe>\n"
    \o "                    <td><b>Notified to:</b></td>\n"
    \o "                    <td><font color=#007700><b>" \o contact_email \o "</b></font></td>\n"
    \o "                </tr>\n"
    \o "            </table>\n"
    \o "            <br>\n"
    \o "            <br>\n"
    \o "            <table border=0 cellpadding=0 cellspacing=0 width=100%>\n"
    \o "                <tr bgcolor=#000055>\n"
    \o "                    <td><b><font color=#FFFFFF>Resumen</font></b></td>\n"
    \o "                    <td></td>\n"
    \o "                </tr>\n"
    \o "                <tr bgcolor=#eeeeee>\n"
    \o "                    <td><b>Host Group:</b></td>\n"
    \o "                    <td><b>" \o host_group_alias \o "</b></td>\n"
    \o "                </tr>\n"
    \o "                <tr bgcolor=#f6f6ff>\n"
    \o "                    <td>Total Warning:</td>\n"
    \o "                    <td>" \o total_services_warning \o "</td>\n"
    \o "                </tr>\n"
    \o "                <tr bgcolor=#fffef6>\n"
    \o "                    <td>Total Critical:</td>\n"
    \o "                    <td>" \o total_services_critical \o "</td>\n"
    \o "                </tr>\n"
    \o "                <tr bgcolor=#f6f6ff>\n"
    \o "                    <td>Total Unknown:</td>\n"
    \o "                    <td>" \o total_services_unknown \o "</td>\n"
    \o "                </tr>\n"
    \o "                <tr bgcolor=#fffef6>\n"
    \o "                    <td>In <i>ALERT</i> for:</td>\n"
    \o "                    <td>" \o service_duration \o "</td>\n"
    \o "                </tr>\n"
    \o "            </table>\n"
    \o "        </body>\n"
    \o "    </html>\n"
    \o "    "

\* service script: html_content, each placeholder bound to the variable it names
ServiceHtml(c, f) ==
    ServiceTemplate(ServiceUrlImage, c, f["service_state"], ServiceUrl,
                    f["host_name"], f["host_alias"], f["service_desc"],
                    f["host_address"], f["long_date_time"], f["service_output"],
                    f["contact_email"], f["host_group_alias"],
                    f["total_services_warning"], f["total_services_critical"],
                    f["total_services_unknown"], f["service_duration"])

Color(s, f) == IF s = "host" THEN HostColor(f["host_state"])
               ELSE ServiceColor(f["service_state"])

Subject(s, f) == IF s = "host" THEN HostSubject(f) ELSE ServiceSubject(f)

Html(s, c, f) == IF s = "host" THEN HostHtml(c, f) ELSE ServiceHtml(c, f)

\* the MIMEMultipart message: its three headers and its one text/html part
Message(s, subj, html, f) ==
    [Subject |-> subj,
     From    |-> IF s = "host" THEN HostSenderEmail ELSE ServiceSenderEmail(f),
     To      |-> IF s = "host" THEN f["recipient_email"] ELSE f["contact_email"],
     html    |-> html]

None == "(none)"

NoMessage == [Subject |-> None, From |-> None, To |-> None, html |-> None]

\* what the scripts print
Usage == "usage: ... error: ..."

SentOk == "Email sent successfully!"

FailedToSend == "Failed to send email: "

ErrorSending == "Error sending email: "

Traceback == "Traceback (most recent call last): ..."

\* the return codes sendmail may end with
ReturnCodes == {0, 1}

(* ------------------------------- the run -------------------------------- *)

Init ==
    /\ script \in Scripts
    /\ \/ argv \in CommandLines(script) /\ values = BaseRecord
       \/ argv = Required(script) /\ values \in Records
    /\ pc = "start"
    /\ color = None
    /\ subject = None
    /\ html_content = None
    /\ message = NoMessage
    /\ calls = << >>
    /\ exc = None
    /\ conn = "none"
    /\ proc = "none"
    /\ stdin = "none"
    /\ returncode = -1
    /\ delivered = FALSE
    /\ out = << >>
    /\ exitcode = -1

\* __main__: parser.parse_args(); argparse prints the usage and exits with 2
\* on a missing or an unrecognized flag
ParseArgs ==
    /\ pc = "start"
    /\ IF ParseOk(script, argv)
       THEN /\ pc' = "call"
            /\ UNCHANGED <<out, exitcode>>
       ELSE /\ pc' = "exit"
            /\ out' = Append(out, Usage)
            /\ exitcode' = 2
    /\ UNCHANGED <<script, argv, values, color, subject, html_content, message,
                   calls, exc, conn, proc, stdin, returncode, delivered>>

\* send_centreon_alert_email: color, subject and html_content
Render ==
    /\ pc = "call"
    /\ color' = Color(script, values)
    /\ subject' = Subject(script, values)
    /\ html_content' = Html(script, color', values)
    /\ pc' = "mime"
    /\ UNCHANGED <<script, argv, values, message, calls, exc, conn, proc, stdin,
                   returncode, delivered, out, exitcode>>

\* send_centreon_alert_email: the MIME message.  MIMEText encodes the body;
\* a body that cannot be encoded raises outside the try block, and the
\* interpreter ends the run with a traceback and exit code 1
BuildMessage ==
    /\ pc = "mime"
    /\ IF Encodable(html_content)
       THEN /\ message' = Message(script, subject, html_content, values)
            /\ pc' = "try"
            /\ UNCHANGED <<out, exitcode>>
       ELSE /\ pc' = "exit"
            /\ out' = Append(out, Traceback)
            /\ exitcode' = 1
            /\ UNCHANGED message
    /\ UNCHANGED <<script, argv, values, color, subject, html_content, calls, exc,
                   conn, proc, stdin, returncode, delivered>>

\* host script: smtplib.SMTP(smtp_server, smtp_port); a constructor that
\* raises leaves no connection behind
SMTPConnect ==
    /\ script = "host" /\ pc = "try"
    /\ \E ok \in BOOLEAN :
          /\ calls' = Append(calls, [step |-> "connect", ok |-> ok])
          /\ IF ok THEN conn' = "open" /\ pc' = "starttls" /\ UNCHANGED exc
                ELSE conn' = "none" /\ pc' = "except" /\ exc' = "connect"
    /\ UNCHANGED <<script, argv, values, color, subject, html_content, message,
                   proc, stdin, returncode, delivered, out, exitcode>>

\* a bug: starttls() wrapped in a try of its own that swallows the failure,
\* so that login is attempted on the unsecured connection
StartTLSIgnored ==
    /\ script = "host" /\ pc = "starttls"
    /\ \E ok \in BOOLEAN :
          calls' = Append(calls, [step |-> "starttls", ok |-> ok])
    /\ pc' = "login"
    /\ UNCHANGED <<script, argv, values, color, subject, html_content, message,
                   exc, conn, proc, stdin, returncode, delivered, out, exitcode>>

\* host script: server.starttls()
StartTLS ==
    /\ script = "host" /\ pc = "starttls"
    /\ \E ok \in BOOLEAN :
          /\ calls' = Append(calls, [step |-> "starttls", ok |-> ok])
          /\ IF ok THEN pc' = "login" /\ UNCHANGED exc
                ELSE pc' = "with_exit" /\ exc' = "starttls"
    /\ UNCHANGED <<script, argv, values, color, subject, html_content, message,
                   conn, proc, stdin, returncode, delivered, out, exitcode>>

\* host script: server.login(sender_email, sender_password)
Login ==
    /\ script = "host" /\ pc = "login"
    /\ \E ok \in BOOLEAN :
          /\ calls' = Append(calls, [step |-> "login", ok |-> ok])
          /\ IF ok THEN pc' = "sendmail" /\ UNCHANGED exc
                ELSE pc' = "with_exit" /\ exc' = "login"
    /\ UNCHANGED <<script, argv, values, color, subject, html_content, message,
                   conn, proc, stdin, returncode, delivered, out, exitcode>>

\* host script: server.sendmail(sender_email, recipient_email, message.as_string())
SendMail ==
    /\ script = "host" /\ pc = "sendmail"
    /\ \E ok \in BOOLEAN :
          /\ calls' = Append(calls, [step |-> "sendmail", ok |-> ok])
          /\ IF ok THEN delivered' = TRUE /\ UNCHANGED exc
                ELSE exc' = "sendmail" /\ UNCHANGED delivered
    /\ pc' = "with_exit"
    /\ UNCHANGED <<script, argv, values, color, subject, html_content, message,
                   conn, proc, stdin, returncode, out, exitcode>>

\* host script: leaving the with block.  SMTP.__exit__ sends QUIT and closes
\* the connection whatever the reply; a reply other than 221 raises, a
\* dropped connection does not
WithExit ==
    /\ script = "host" /\ pc = "with_exit"
    /\ conn' = "closed"
    /\ \E reply \in {"221", "other", "disconnected"} :
          /\ calls' = Append(calls, [step |-> "quit", ok |-> reply # "other"])
          /\ exc' = IF reply = "other" THEN "quit" ELSE exc
          /\ pc' = IF exc' = None THEN "print_ok" ELSE "except"
    /\ UNCHANGED <<script, argv, values, color, subject, html_content, message,
                   proc, stdin, returncode, delivered, out, exitcode>>

\* host script: print("Email sent successfully!")
PrintSuccess ==
    /\ script = "host" /\ pc = "print_ok"
    /\ out' = Append(out, SentOk)
    /\ pc' = "return"
    /\ UNCHANGED <<script, argv, values, color, subject, html_content, message,
                   calls, exc, conn, proc, stdin, returncode, delivered, exitcode>>

\* service script: subprocess.Popen(["/usr/sbin/sendmail", "-t", "-oi"], stdin=PIPE)
Popen ==
    /\ script = "service" /\ pc = "try"
    /\ \E ok \in BOOLEAN :
          /\ calls' = Append(calls, [step |-> "Popen", ok |-> ok])
          /\ IF ok THEN proc' = "running" /\ stdin' = "open" /\ pc' = "communicate"
                     /\ UNCHANGED exc
                ELSE pc' = "except" /\ exc' = "Popen" /\ UNCHANGED <<proc, stdin>>
    /\ UNCHANGED <<script, argv, values, color, subject, html_content, message,
                   conn, returncode, delivered, out, exitcode>>

\* service script: process.communicate(message.as_string().encode('utf-8')).
\* communicate writes the message, closes stdin and waits for sendmail, whose
\* return code it stores and nobody reads; when the write raises, stdin stays
\* open and sendmail is not waited for
Communicate ==
    /\ script = "service" /\ pc = "communicate"
    /\ \/ /\ calls' = Append(calls, [step |-> "communicate", ok |-> TRUE])
          /\ stdin' = "closed"
          /\ proc' = "waited"
          /\ returncode' \in ReturnCodes
          /\ delivered' = (returncode' = 0)
          /\ pc' = "return"
          /\ UNCHANGED exc
       \/ /\ calls' = Append(calls, [step |-> "communicate", ok |-> FALSE])
          /\ exc' = "communicate"
          /\ pc' = "except"
          /\ UNCHANGED <<stdin, proc, returncode, delivered>>
    /\ UNCHANGED <<script, argv, values, color, subject, html_content, message,
                   conn, out, exitcode>>

\* a change of behaviour: the handler ends the run with sys.exit(1)
ExceptExit1 ==
    /\ pc = "except"
    /\ out' = Append(out, IF script = "host" THEN FailedToSend ELSE ErrorSending)
    /\ pc' = "exit"
    /\ exitcode' = 1
    /\ UNCHANGED <<script, argv, values, color, subject, html_content, message,
                   calls, exc, conn, proc, stdin, returncode, delivered>>

\* except Exception as e: print(...) in either script
Except ==
    /\ pc = "except"
    /\ out' = Append(out, IF script = "host" THEN FailedToSend ELSE ErrorSending)
    /\ pc' = "return"
    /\ UNCHANGED <<script, argv, values, color, subject, html_content, message,
                   calls, exc, conn, proc, stdin, returncode, delivered, exitcode>>

\* the function returns and the script ends: exit code 0
Exit ==
    /\ pc = "return"
    /\ pc' = "exit"
    /\ exitcode' = 0
    /\ UNCHANGED <<script, argv, values, color, subject, html_content, message,
                   calls, exc, conn, proc, stdin, returncode, delivered, out>>

Next ==
    \/ ParseArgs
    \/ Render
    \/ BuildMessage
    \/ SMTPConnect
    \/ StartTLS
    \/ Login
    \/ SendMail
    \/ WithExit
    \/ PrintSuccess
    \/ Popen
    \/ Communicate
    \/ Except
    \/ Exit

Spec == Init /\ [][Next]_vars

(* ------------------------------ the claims ------------------------------ *)

\* the state string the script reads
StateOf(s, f) == IF s = "host" THEN f["host_state"] ELSE f["service_state"]

Other(s) == IF s = "host" THEN "service" ELSE "host"

\* the mapping the specification fixes
FixedMapping(st) ==
    CASE st = "OK" -> "green"
      [] st = "WARNING" -> "orange"
      [] st \in {"CRITICAL", "DOWN"} -> "red"
      [] OTHER -> "gray"

\* C1: in either script the color is the fixed, case-sensitive, exact-match
\* mapping of the state string (OK green, WARNING orange, CRITICAL and DOWN
\* red, anything else gray), and the two scripts choose the same color for
\* the same state string.
C1_ColorMapping ==
    color # None =>
        /\ color = FixedMapping(StateOf(script, values))
        /\ HostColor(StateOf(script, values)) = ServiceColor(StateOf(script, values))

C1_Witness ==
    /\ pc = "exit" /\ script = "host" /\ exitcode = 0
    /\ values["host_state"] = "ok" /\ color = "gray"

\* C2: with a required flag missing the run ends in a usage error before any
\* processing: the function is never entered, nothing is rendered, and the
\* transport receives no call.
C2_MissingFlagNoTransport ==
    (Required(script) \ argv) # {} =>
        /\ pc \in {"start", "exit"}
        /\ calls = << >> /\ conn = "none" /\ proc = "none" /\ stdin = "none"
        /\ color = None /\ subject = None /\ html_content = None
        /\ message = NoMessage
        /\ pc = "exit" => (exitcode = 2 /\ out = <<Usage>>)

C2_Witness ==
    /\ pc = "exit" /\ exitcode = 2 /\ calls = << >>
    /\ argv \subseteq Required(script)
    /\ Cardinality(Required(script) \ argv) = 1

\* C3: a run with exactly the flags of the Notification Command documented in
\* the script's header passes argument parsing (it does not end in the usage
\* error).
C3_DocumentedCommandAccepted ==
    argv = Documented(script) => ~(pc = "exit" /\ exitcode = 2)

\* the transport steps of the host script, in the order of the source
Steps == <<"connect", "starttls", "login", "sendmail">>

StepNames == {Steps[i] : i \in 1..Len(Steps)}

IsStep(c) == c.step \in StepNames

StepCalls == SelectSeq(calls, IsStep)

AnyStepFailed == \E i \in 1..Len(StepCalls) : ~StepCalls[i].ok

InOut(line) == \E i \in 1..Len(out) : out[i] = line

\* C4: in the host script a failure at any transport step is caught and
\* reported with the failure message and the run ends with no unhandled
\* exception; the steps are attempted in order, each at most once, none after
\* a failed one; and the success message is printed only when all four steps
\* succeeded.
C4_RelayFailureCaught ==
    script = "host" =>
        /\ Len(StepCalls) <= Len(Steps)
        /\ \A i \in 1..Len(StepCalls) :
              /\ StepCalls[i].step = Steps[i]
              /\ ~StepCalls[i].ok => i = Len(StepCalls)
        /\ (pc = "exit" /\ AnyStepFailed) =>
              (out = <<FailedToSend>> /\ exitcode = 0)
        /\ InOut(SentOk) =>
              /\ Len(StepCalls) = Len(Steps)
              /\ ~AnyStepFailed
              /\ delivered
        /\ calls # << >> => ~InOut(Traceback)

C4_Witness ==
    /\ script = "host" /\ pc = "exit"
    /\ Len(StepCalls) = 3 /\ ~StepCalls[3].ok
    /\ out = <<FailedToSend>>

\* the delivery of the service script failed
ServiceDeliveryFailed ==
    \/ \E i \in 1..Len(calls) : ~calls[i].ok
    \/ proc = "waited" /\ returncode # 0

\* C5: in the service script every delivery failure (sendmail failing to
\* start, the write raising, or sendmail reading the message and ending with
\* a non-zero status) is reported with the error message.
C5_EveryFailureReported ==
    (script = "service" /\ pc = "exit" /\ ServiceDeliveryFailed) =>
        InOut(ErrorSending)

\* what the other script renders from the same alert
OtherColor == Color(Other(script), values)

OtherSubject == Subject(Other(script), values)

OtherHtml == Html(Other(script), OtherColor, values)

\* C6 (as stated): the two scripts render the same subject and the same HTML
\* body from the same alert.
C6_IdenticalContent ==
    pc = "try" => (message.Subject = OtherSubject /\ message.html = OtherHtml)

\* C6 (amended): from the same alert the two scripts render different
\* subjects and different HTML bodies; they agree on the color of the header
\* row and on the recipient in the To header.
C6_ContentDiffers ==
    pc = "try" =>
        /\ message.Subject # OtherSubject
        /\ message.html # OtherHtml
        /\ color = OtherColor
        /\ message.To = Message(Other(script), OtherSubject, OtherHtml, values).To

C6_Witness ==
    /\ pc = "try" /\ script = "service"
    /\ values["service_state"] = "CRITICAL" /\ values["host_state"] = "CRITICAL"
    /\ color = "red"

\* the header row of the first table
HeaderRow(s, c) ==
    IF s = "host"
    THEN "<tr bgcolor=" \o c \o ">\n                        <td width='140'><b><font color=#ffffff>Host: </font></b></td>"
    ELSE "<tr bgcolor=" \o c \o ">\n                    <td width='140'><b><font color=#ffffff>Notificacion:</font></b></td>"

\* the fields the body shows: all of them, but the recipient in the host script
BodyFields(s) == IF s = "host" THEN HostRequired \ {"recipient_email"}
                 ELSE ServiceRequired

\* C7 (as stated): the HTML body holds the value of every input field of the
\* script verbatim, and the header row has the color of the state.
C7_EveryFieldInBody ==
    pc = "mime" =>
        /\ \A n \in Required(script) : Contains(html_content, values[n])
        /\ Contains(html_content, HeaderRow(script, FixedMapping(StateOf(script, values))))

\* C7 (amended): the HTML body holds the value of every input field verbatim,
\* except recipient_email in the host script, which is in the To header only;
\* the header row has the color of the state.
C7_BodyFieldsVerbatim ==
    /\ pc = "mime" =>
          /\ \A n \in BodyFields(script) : Contains(html_content, values[n])
          /\ Contains(html_content, HeaderRow(script, FixedMapping(StateOf(script, values))))
    /\ (pc = "try" /\ script = "host") => message.To = values["recipient_email"]

C7_Witness ==
    /\ pc = "mime" /\ script = "host"
    /\ values["host_alias"] = "<b>web01</b>"
    /\ Contains(html_content, "<b>web01</b>")
    /\ ~Contains(html_content, values["recipient_email"])

\* C8: the Subject header is "Host {host_name} status is {host_state}" in the
\* host script and "Service {service_desc} in host {host_name} status is
\* {service_state}" in the service script, whatever the other fields are.
C8_SubjectTemplate ==
    message # NoMessage =>
        message.Subject =
            IF script = "host"
            THEN "Host " \o values["host_name"] \o " status is " \o values["host_state"]
            ELSE "Service " \o values["service_desc"] \o " in host "
                     \o values["host_name"] \o " status is " \o values["service_state"]

C8_Witness ==
    /\ pc = "exit" /\ script = "host"
    /\ values["host_alias"] = "<b>web01</b>"
    /\ message.Subject = "Host Notification_test status is UNKNOWN"

\* C9: when the run has ended, no connection is open, no input pipe is open
\* and no subprocess is left unwaited.
C9_ResourceReleased ==
    pc = "exit" => (conn # "open" /\ stdin # "open" /\ proc # "running")

\* C10 (as stated): the exit code is non-zero exactly when argument parsing
\* fails, and 0 for every run that was given all required flags.
C10_ExitCodeOnlyArgErrors ==
    pc = "exit" =>
        /\ (exitcode # 0) <=> ~ParseOk(script, argv)
        /\ Required(script) \subseteq argv => exitcode = 0

\* C10 (amended): the exit code is non-zero exactly when argument parsing
\* fails (a required flag missing or an unrecognized flag given) or the body
\* cannot be encoded when the message is built; every run that reaches the
\* transport ends with 0, whether the dispatch succeeded or failed.
C10_ExitCode ==
    pc = "exit" =>
        /\ (exitcode # 0) <=>
              (~ParseOk(script, argv) \/ InOut(Traceback))
        /\ ~ParseOk(script, argv) => exitcode = 2
        /\ calls # << >> => exitcode = 0

C10_Witness ==
    /\ pc = "exit" /\ exitcode = 0
    /\ \E i \in 1..Len(calls) : ~calls[i].ok
    /\ ~delivered

====
